---- MODULE Spec2Model ----
(***************************************************************************)
(* Model of src/fetch_emails.py: the thread-tree builder build_email_tree, *)
(* the thread-id resolver get_thread_id, the text normalizer               *)
(* clean_email_text and the filename sanitizer sanitize_filename.          *)
(*                                                                         *)
(* Encoding of Python values:                                              *)
(*   - an optional value is <<>> for None and <<v>> for the value v;       *)
(*   - a str is a sequence of one-character strings (<<>> is the empty     *)
(*     str), so that split, strip, replace and re.sub are computed         *)
(*     character by character; a character without an escape in this     *)
(*     module is written by its code point, as "U+00A0";                  *)
(*   - a timestamp is a positive integer, ordered as the dates are;        *)
(*   - a record (dict) of the builder is known by its position in the      *)
(*     input list, which stands for the identity of the Python object.     *)
(***************************************************************************)
EXTENDS Integers, Sequences, FiniteSets, TLC

VARIABLES pc, messages, messages_map, children, roots, idx,
          msg, text, filename, result

vars == <<pc, messages, messages_map, children, roots, idx,
          msg, text, filename, result>>

----------------------------------------------------------------------------
(* Bounds of the model *)

MaxMsgs == 2

MaxDate == 2

----------------------------------------------------------------------------
(* Python values *)

None == <<>>

Some(v) == <<v>>

\* Python truthiness of an optional str: None and "" are falsy.
Truthy(o) == o # None /\ o[1] # <<>>

\* x in list
InSeq(x, s) == \E p \in DOMAIN s : s[p] = x

\* list.count(x)
Count(x, s) == Cardinality({p \in DOMAIN s : s[p] = x})

----------------------------------------------------------------------------
(* build_email_tree *)

IdValues == {None, Some(<<>>), Some(<<"a">>), Some(<<"b">>)}

DateValues == {None} \cup {Some(t) : t \in 1..MaxDate}

MessageRecord == [id : IdValues, in_reply_to : IdValues, date : DateValues]

MessageLists == UNION {[1..n -> MessageRecord] : n \in 0..MaxMsgs}

\* messages_map = {m['id']: m for m in messages}: a later record with the
\* same id overwrites the earlier one.
IndexById(msgs) ==
    [k \in {msgs[j].id : j \in DOMAIN msgs} |->
        CHOOSE j \in DOMAIN msgs :
            /\ msgs[j].id = k
            /\ \A j2 \in DOMAIN msgs : msgs[j2].id = k => j2 <= j]

\* The lookup without the truth test: if parent_id in messages_map
HasParentNoTruthTest(parent_id, map) == parent_id \in DOMAIN map

\* if parent_id and parent_id in messages_map
HasParent(parent_id, map) == Truthy(parent_id) /\ parent_id \in DOMAIN map

\* messages_map[parent_id]['children'].append(msg)
AppendChild(ch, map, parent_id, i) ==
    IF HasParent(parent_id, map)
    THEN [ch EXCEPT ![map[parent_id]] = Append(@, i)]
    ELSE ch

\* An append to the roots outside the else branch.
AppendRootAlways(rts, map, parent_id, i) == Append(rts, i)

\* else: roots.append(msg)
AppendRoot(rts, map, parent_id, i) ==
    IF HasParent(parent_id, map) THEN rts ELSE Append(rts, i)

\* key=lambda x: x['date']
DateKey(i) == messages[i].date

\* Comparing None with anything raises TypeError; list.sort compares every
\* element at least once as soon as the list has two elements.
SortRaises(s) == Len(s) >= 2 /\ \E p \in DOMAIN s : DateKey(s[p]) = None

\* One insertion of a stable sort: x goes after every element whose key is
\* not greater than its own.
RECURSIVE InsertByDate(_, _)
InsertByDate(x, s) ==
    IF s = <<>> THEN <<x>>
    ELSE IF DateKey(s[Len(s)])[1] <= DateKey(x)[1]
         THEN Append(s, x)
         ELSE Append(InsertByDate(x, SubSeq(s, 1, Len(s) - 1)), s[Len(s)])

RECURSIVE InsertionSort(_)
InsertionSort(s) ==
    IF s = <<>> THEN <<>>
    ELSE InsertByDate(s[Len(s)], InsertionSort(SubSeq(s, 1, Len(s) - 1)))

\* A sort that puts equal keys in reverse order of arrival.
RECURSIVE InsertByDateUnstable(_, _)
InsertByDateUnstable(x, s) ==
    IF s = <<>> THEN <<x>>
    ELSE IF DateKey(s[Len(s)])[1] < DateKey(x)[1]
         THEN Append(s, x)
         ELSE Append(InsertByDateUnstable(x, SubSeq(s, 1, Len(s) - 1)), s[Len(s)])

RECURSIVE SortByDateUnstable(_)
SortByDateUnstable(s) ==
    IF Len(s) <= 1 THEN s
    ELSE InsertByDateUnstable(s[Len(s)], SortByDateUnstable(SubSeq(s, 1, Len(s) - 1)))

\* list.sort(key=lambda x: x['date']) on a list that does not raise
SortByDate(s) == IF Len(s) <= 1 THEN s ELSE InsertionSort(s)

\* The list as list.sort leaves it when a comparison raises TypeError.
\* CPython sorts in place, run by run: a run is counted from the current
\* position, reversed if it is strictly descending, extended to minrun
\* entries by binary insertion, and pushed on a stack of pending runs whose
\* top runs are merged as the powers of the run boundaries order. The first
\* comparison that involves a None key raises, and the list stays as the
\* steps before it made it.

\* merge_compute_minrun: the length itself below 64, else its six leading
\* bits, plus one if any other bit is set
RECURSIVE MinRunFrom(_, _)
MinRunFrom(n, r) ==
    IF n >= 64 THEN MinRunFrom(n \div 2, IF n % 2 = 1 THEN 1 ELSE r)
    ELSE n + r

MinRun(n) == MinRunFrom(n, 0)

\* ISLT on the keys of the entries at positions p and q of s
KeyLess(s, p, q) == DateKey(s[p])[1] < DateKey(s[q])[1]

\* count_run after its first comparison: j is the next position to compare
\* with its predecessor; -1 when that comparison raises
RECURSIVE CountFrom(_, _, _, _)
CountFrom(s, lo, j, descending) ==
    IF j > Len(s) THEN j - lo
    ELSE IF DateKey(s[j]) = None THEN -1
    ELSE IF KeyLess(s, j, j - 1) = descending
         THEN CountFrom(s, lo, j + 1, descending)
         ELSE j - lo

\* count_run: the length of the run that starts at lo, non-decreasing or
\* strictly descending; a single last entry is a run without a comparison
CountRun(s, lo) ==
    IF lo = Len(s) THEN 1
    ELSE IF DateKey(s[lo]) = None \/ DateKey(s[lo + 1]) = None THEN -1
    ELSE CountFrom(s, lo, lo + 2, KeyLess(s, lo + 1, lo))

\* reverse_sortslice: the slice lo..hi of s in reverse order
ReverseSlice(s, lo, hi) ==
    [p \in DOMAIN s |-> IF lo <= p /\ p <= hi THEN s[lo + hi - p] ELSE s[p]]

\* The slice lo..hi of s put in stable order of the keys, as binarysort
\* leaves a slice it has gone through and merge_at two adjacent runs.
SortSlice(s, lo, hi) ==
    SubSeq(s, 1, lo - 1) \o InsertionSort(SubSeq(s, lo, hi))
                         \o SubSeq(s, hi + 1, Len(s))

\* The first position in start..hi whose key is None, hi + 1 if none is
FirstNone(s, start, hi) ==
    IF \E p \in start..hi : DateKey(s[p]) = None
    THEN CHOOSE p \in start..hi :
            /\ DateKey(s[p]) = None
            /\ \A q \in start..hi : DateKey(s[q]) = None => p <= q
    ELSE hi + 1

\* binarysort of lo..hi, whose entries before start are in order: the
\* entries from start on are inserted one by one, and the insertion of an
\* entry whose key is None raises at its first comparison.
BinarySort(s, lo, hi, start) == SortSlice(s, lo, FirstNone(s, start, hi) - 1)

\* powerloop: the power of the boundary between the run of n1 entries at
\* offset s1 and the run of n2 entries after it, in a list of n entries
RECURSIVE PowerFrom(_, _, _, _)
PowerFrom(a, b, n, power) ==
    IF a >= n THEN PowerFrom(2 * (a - n), 2 * (b - n), n, power + 1)
    ELSE IF b >= n THEN power + 1
    ELSE PowerFrom(2 * a, 2 * b, n, power + 1)

PowerLoop(s1, n1, n2, n) == PowerFrom(2 * s1 + n1, 2 * s1 + 2 * n1 + n2, n, 0)

\* The loop of found_new_run: while the run under the top has a greater
\* power than the new boundary, the two top runs are merged (merge_at); the
\* top run then takes the power of the new boundary.
RECURSIVE MergePending(_, _, _)
MergePending(s, pending, power) ==
    LET n == Len(pending) IN
    IF n > 1 /\ pending[n - 1].power > power
    THEN LET a == pending[n - 1]
             b == pending[n]
             merged == [base |-> a.base, len |-> a.len + b.len,
                        power |-> a.power]
         IN MergePending(SortSlice(s, a.base, b.base + b.len - 1),
                         Append(SubSeq(pending, 1, n - 2), merged), power)
    ELSE [list |-> s, pending |-> [pending EXCEPT ![n].power = power]]

\* found_new_run: a run of n2 entries is about to be pushed
FoundNewRun(s, pending, n2) ==
    IF pending = <<>> THEN [list |-> s, pending |-> pending]
    ELSE LET top == pending[Len(pending)]
         IN MergePending(s, pending,
                         PowerLoop(top.base - 1, top.len, n2, Len(s)))

\* The loop of list.sort from position lo on, up to the comparison that
\* raises. Past the last entry the loop has met no None key: the only one
\* is the last entry, alone in the top run, and the first merge of
\* merge_force_collapse takes that run and raises at its first comparison.
RECURSIVE SortLoop(_, _, _)
SortLoop(s, lo, pending) ==
    IF lo > Len(s) THEN s
    ELSE
    LET nremaining == Len(s) - lo + 1
        minrun == MinRun(Len(s))
        counted == CountRun(s, lo)
        descending == counted >= 2 /\ KeyLess(s, lo + 1, lo)
        reversed == IF descending THEN ReverseSlice(s, lo, lo + counted - 1)
                    ELSE s
        force == IF nremaining <= minrun THEN nremaining ELSE minrun
        n == IF counted < minrun THEN force ELSE counted
        sorted == IF counted < minrun
                  THEN BinarySort(reversed, lo, lo + force - 1, lo + counted)
                  ELSE reversed
        found == FoundNewRun(sorted, pending, n)
    IN IF counted < 0 THEN s
       ELSE IF counted < minrun /\ FirstNone(s, lo + counted, lo + force - 1) < lo + force
            THEN sorted
            ELSE SortLoop(found.list, lo + n,
                          Append(found.pending,
                                 [base |-> lo, len |-> n, power |-> 0]))

SortLeftOnRaise(s) == SortLoop(s, 1, <<>>)

Idle == <<>>

InitBuilder ==
    /\ pc = "idle"
    /\ messages \in MessageLists
    /\ messages_map = Idle
    /\ children = Idle
    /\ roots = Idle
    /\ idx = 0

OtherIdle ==
    /\ msg = Idle
    /\ text = Idle
    /\ filename = Idle
    /\ result = Idle

Init == InitBuilder /\ OtherIdle

\* lines 98-104: index, empty root list, empty children lists
Begin ==
    /\ pc = "idle"
    /\ messages_map' = IndexById(messages)
    /\ roots' = <<>>
    /\ children' = [j \in DOMAIN messages |-> <<>>]
    /\ idx' = 1
    /\ pc' = IF messages = <<>> THEN "sortroots" ELSE "place"
    /\ UNCHANGED <<messages, msg, text, filename, result>>

\* lines 106-114: one iteration of the placement loop
Place ==
    /\ pc = "place"
    /\ LET parent_id == messages[idx].in_reply_to IN
        /\ children' = AppendChild(children, messages_map, parent_id, idx)
        /\ roots' = AppendRoot(roots, messages_map, parent_id, idx)
    /\ idx' = IF idx = Len(messages) THEN 1 ELSE idx + 1
    /\ pc' = IF idx = Len(messages) THEN "sort" ELSE "place"
    /\ UNCHANGED <<messages, messages_map, msg, text, filename, result>>

\* lines 117-118: one iteration of the loop sorting the children lists
SortChildren ==
    /\ pc = "sort"
    /\ ~SortRaises(children[idx])
    /\ children' = [children EXCEPT ![idx] = SortByDate(@)]
    /\ idx' = IF idx = Len(messages) THEN 1 ELSE idx + 1
    /\ pc' = IF idx = Len(messages) THEN "sortroots" ELSE "sort"
    /\ UNCHANGED <<messages, messages_map, roots, msg, text, filename, result>>

\* line 118 raising TypeError: the call ends without a return value, and
\* the children list is left as the interrupted sort made it
SortChildrenRaises ==
    /\ pc = "sort"
    /\ SortRaises(children[idx])
    /\ children' = [children EXCEPT ![idx] = SortLeftOnRaise(@)]
    /\ pc' = "raised"
    /\ UNCHANGED <<messages, messages_map, roots, idx,
                   msg, text, filename, result>>

\* lines 121-123: sort the roots and return them
SortRoots ==
    /\ pc = "sortroots"
    /\ ~SortRaises(roots)
    /\ roots' = SortByDate(roots)
    /\ pc' = "done"
    /\ UNCHANGED <<messages, messages_map, children, idx,
                   msg, text, filename, result>>

\* line 121 raising TypeError, roots being as the interrupted sort made it
SortRootsRaises ==
    /\ pc = "sortroots"
    /\ SortRaises(roots)
    /\ roots' = SortLeftOnRaise(roots)
    /\ pc' = "raised"
    /\ UNCHANGED <<messages, messages_map, children, idx,
                   msg, text, filename, result>>

Next ==
    \/ Begin
    \/ Place
    \/ SortChildren
    \/ SortChildrenRaises
    \/ SortRoots
    \/ SortRootsRaises

Spec == Init /\ [][Next]_vars

----------------------------------------------------------------------------
(* Properties of build_email_tree *)

\* The placement loop (lines 106-114) has run to its end.
Placed == pc \in {"sort", "sortroots", "done", "raised"}

\* Number of places of record i in the root list and in all children lists.
Occurrences(i) ==
    Count(i, roots)
    + Cardinality(UNION {{<<j, p>> : p \in {q \in DOMAIN children[j] : children[j][q] = i}}
                         : j \in DOMAIN children})

\* C1: once every record is placed, and in particular when the call has
\* returned, each input record occurs exactly once in the root list together
\* with the children lists of all input records.
C1_EachRecordExactlyOnce ==
    Placed => \A i \in DOMAIN messages : Occurrences(i) = 1

C1_Witness ==
    /\ pc = "done"
    /\ roots # <<>>
    /\ \E j \in DOMAIN children : children[j] # <<>>

\* Some record passed to the call has the id o.
IdInCall(o) == \E j \in DOMAIN messages : messages[j].id = o

\* C2 as stated: a record is a root if and only if its in_reply_to is absent
\* or equals the id of no record of the same call.
C2_RootIffAbsentOrUnmatched ==
    pc = "done" =>
        \A i \in DOMAIN messages :
            InSeq(i, roots) <=>
                (messages[i].in_reply_to = None \/ ~IdInCall(messages[i].in_reply_to))

\* C2 amended: a record is a root if and only if its in_reply_to is absent or
\* the empty string, or equals the id of no record of the same call.
C2_RootIffFalsyOrUnmatched ==
    pc = "done" =>
        \A i \in DOMAIN messages :
            InSeq(i, roots) <=>
                (~Truthy(messages[i].in_reply_to) \/ ~IdInCall(messages[i].in_reply_to))

C2_Witness ==
    /\ pc = "done"
    /\ \E i \in DOMAIN messages :
        /\ messages[i].in_reply_to = Some(<<>>)
        /\ IdInCall(Some(<<>>))
        /\ InSeq(i, roots)

\* C3 as stated: a record whose in_reply_to equals its own id is placed in
\* the returned root list.
C3_SelfParentIsRoot ==
    pc = "done" =>
        \A i \in DOMAIN messages :
            (messages[i].in_reply_to # None /\ messages[i].in_reply_to = messages[i].id)
                => InSeq(i, roots)

\* Records reachable from the set S through children links (S included).
RECURSIVE Closure(_)
Closure(S) ==
    LET T == S \cup {children[j][p] : <<j, p>> \in
                        {jp \in S \X (1..Len(messages)) : jp[2] \in DOMAIN children[jp[1]]}}
    IN IF T = S THEN S ELSE Closure(T)

Descendants(i) == Closure({children[i][p] : p \in DOMAIN children[i]})

\* C4 as stated: the returned structure is a forest spanning the input: every
\* record is reached from the roots, and no record is reachable from itself.
C4_SpanningForest ==
    pc = "done" =>
        /\ Closure({roots[p] : p \in DOMAIN roots}) = DOMAIN messages
        /\ \A i \in DOMAIN messages : i \notin Descendants(i)

\* The list s is non-decreasing by date, and records with equal dates are in
\* the order of the input list.
SortedStable(s) ==
    \A p, q \in DOMAIN s :
        p < q =>
            /\ DateKey(s[p]) # None
            /\ DateKey(s[q]) # None
            /\ DateKey(s[p])[1] <= DateKey(s[q])[1]
            /\ (DateKey(s[p]) = DateKey(s[q]) => s[p] < s[q])

\* C5: after the call returns, the root list and every children list are
\* non-decreasing by timestamp, and records with equal timestamps in the same
\* list keep their input order.
C5_SortedAndStable ==
    pc = "done" =>
        /\ SortedStable(roots)
        /\ \A j \in DOMAIN children : SortedStable(children[j])

C5_Witness ==
    /\ pc = "done"
    /\ \E s \in {roots} \cup {children[j] : j \in DOMAIN children} :
        /\ Len(s) >= 2
        /\ DateKey(s[1]) = DateKey(s[2])

\* Records without a date come before records with one.
MissingFirst(s) ==
    \A p, q \in DOMAIN s :
        (DateKey(s[p]) = None /\ DateKey(s[q]) # None) => p < q

\* C7 as stated: a record without a timestamp never causes an error, is kept,
\* and is ordered before every record with a timestamp in the root list and
\* in the children lists.
C7_MissingTimestampFirst ==
    /\ pc # "raised"
    /\ pc = "done" =>
        /\ \A i \in DOMAIN messages : Occurrences(i) = 1
        /\ MissingFirst(roots)
        /\ \A j \in DOMAIN children : MissingFirst(children[j])

\* Ids carried by two or more records of the call.
SharedIds ==
    {o \in {messages[j].id : j \in DOMAIN messages} \ {None} :
        Cardinality({j \in DOMAIN messages : messages[j].id = o}) >= 2}

LastWithId(o) ==
    CHOOSE j \in DOMAIN messages :
        /\ messages[j].id = o
        /\ \A j2 \in DOMAIN messages : messages[j2].id = o => j2 <= j

\* C10 as stated: when records share an id, every record replying to that id
\* is a child of the last record with that id, the earlier records with that
\* id have no children, and the call completes without error.
C10_DuplicateIdLastWins ==
    /\ (pc = "raised" => SharedIds = {})
    /\ pc = "done" =>
        \A o \in SharedIds :
            /\ \A i \in DOMAIN messages :
                messages[i].in_reply_to = o => InSeq(i, children[LastWithId(o)])
            /\ \A j \in DOMAIN messages :
                (messages[j].id = o /\ j # LastWithId(o)) => children[j] = <<>>

----------------------------------------------------------------------------
(* str operations *)

\* The characters str.split() and str.strip() treat as whitespace: the 29
\* characters for which str.isspace() holds. A character that has no escape
\* in a string of this module is written by its code point.
Whitespace ==
    {"\t", "\n", "U+000B", "\f", "\r", "U+001C", "U+001D", "U+001E", "U+001F",
     " ", "U+0085", "U+00A0", "U+1680", "U+2000", "U+2001", "U+2002", "U+2003",
     "U+2004", "U+2005", "U+2006", "U+2007", "U+2008", "U+2009", "U+200A",
     "U+2028", "U+2029", "U+202F", "U+205F", "U+3000"}

Strings(alphabet, n) == UNION {[1..k -> alphabet] : k \in 0..n}

\* str.split() without argument, from position p on, cur being the token
\* under construction.
RECURSIVE SplitFrom(_, _, _)
SplitFrom(s, p, cur) ==
    IF p > Len(s) THEN (IF cur = <<>> THEN <<>> ELSE <<cur>>)
    ELSE IF s[p] \in Whitespace
         THEN (IF cur = <<>> THEN <<>> ELSE <<cur>>) \o SplitFrom(s, p + 1, <<>>)
         ELSE SplitFrom(s, p + 1, Append(cur, s[p]))

Split(s) == SplitFrom(s, 1, <<>>)

RECURSIVE LStrip(_)
LStrip(s) ==
    IF s # <<>> /\ s[1] \in Whitespace THEN LStrip(Tail(s)) ELSE s

RECURSIVE RStrip(_)
RStrip(s) ==
    IF s # <<>> /\ s[Len(s)] \in Whitespace
    THEN RStrip(SubSeq(s, 1, Len(s) - 1))
    ELSE s

\* str.strip()
Strip(s) == RStrip(LStrip(s))

----------------------------------------------------------------------------
(* get_thread_id *)

MaxRefsLen == 3

MaxIdLen == 2

HeaderChars == {" ", "U+000B", "a", "b"}

HeaderNames == {"References", "In-Reply-To", "Message-ID"}

\* What msg.get gives for a header with a non-ASCII byte when msg comes from
\* email.message_from_bytes (line 265): an email.header.Header object, which
\* is no str. It is a pair, so that it differs from None and from every str.
HeaderObject == <<"email.header.Header", "object">>

IsHeaderObject(o) == Len(o) = Len(HeaderObject)

\* msg.get(name): None, a str or a Header object
HeaderValues(n) ==
    {None, HeaderObject} \cup {Some(v) : v \in Strings(HeaderChars, n)}

\* Truth value of what msg.get gives: a Header object defines neither
\* __bool__ nor __len__ and is true.
TruthyHeader(o) == IsHeaderObject(o) \/ Truthy(o)

Headers ==
    {[h \in HeaderNames |->
        IF h = "References" THEN r ELSE IF h = "In-Reply-To" THEN p ELSE m] :
     r \in HeaderValues(MaxRefsLen), p \in HeaderValues(MaxIdLen),
     m \in HeaderValues(MaxIdLen)}

\* The header whose value get_thread_id works on: the first true one in the
\* order References, In-Reply-To, Message-ID (lines 70-81); None if none is.
HeaderUsed(m) ==
    IF TruthyHeader(m["References"]) THEN m["References"]
    ELSE IF TruthyHeader(m["In-Reply-To"]) THEN m["In-Reply-To"]
         ELSE IF TruthyHeader(m["Message-ID"]) THEN m["Message-ID"]
              ELSE None

\* refs.split() (line 73), in_reply_to.strip() (line 77) or msg_id.strip()
\* (line 81) on a Header object: AttributeError
GetThreadIdRaisesOn(m) == IsHeaderObject(HeaderUsed(m))

\* The value returned when no AttributeError is raised.
get_thread_id(m) ==
    LET refs == m["References"]
        in_reply_to == m["In-Reply-To"]
        msg_id == m["Message-ID"]
    IN IF TruthyHeader(refs)
       THEN (IF Split(refs[1]) # <<>>
             THEN Some(Split(refs[1])[Len(Split(refs[1]))])
             ELSE None)
       ELSE IF TruthyHeader(in_reply_to)
            THEN Some(Strip(in_reply_to[1]))
            ELSE IF TruthyHeader(msg_id) THEN Some(Strip(msg_id[1])) ELSE None

BuilderIdle ==
    /\ messages = Idle
    /\ messages_map = Idle
    /\ children = Idle
    /\ roots = Idle
    /\ idx = 0

InitThreadId ==
    /\ pc = "idle"
    /\ msg \in Headers
    /\ text = Idle
    /\ filename = Idle
    /\ result = Idle
    /\ BuilderIdle

GetThreadId ==
    /\ pc = "idle"
    /\ ~GetThreadIdRaisesOn(msg)
    /\ result' = get_thread_id(msg)
    /\ pc' = "done"
    /\ UNCHANGED <<messages, messages_map, children, roots, idx, msg, text, filename>>

\* AttributeError at line 73, 77 or 81: nothing is returned
GetThreadIdRaises ==
    /\ pc = "idle"
    /\ GetThreadIdRaisesOn(msg)
    /\ pc' = "raised"
    /\ UNCHANGED <<messages, messages_map, children, roots, idx, msg, text,
                   filename, result>>

NextThreadId ==
    \/ GetThreadId
    \/ GetThreadIdRaises

SpecThreadId == InitThreadId /\ [][NextThreadId]_vars

\* The reference chain of a message: the entries of its References header.
\* The entries of a Header object are not modelled: get_thread_id never
\* returns on one.
ReferenceChain(m) ==
    IF m["References"] = None \/ IsHeaderObject(m["References"]) THEN <<>>
    ELSE Split(m["References"][1])

\* A header value trimmed of surrounding whitespace.
TrimmedHeader(o) == IF IsHeaderObject(o) THEN o ELSE Some(Strip(o[1]))

\* C6 as stated: the last entry of a non-empty reference chain; otherwise the
\* parent id trimmed, if present; otherwise the own id trimmed, if present;
\* otherwise absent.
C6_StrictPrecedence ==
    pc = "done" =>
        result =
            IF ReferenceChain(msg) # <<>>
            THEN Some(ReferenceChain(msg)[Len(ReferenceChain(msg))])
            ELSE IF TruthyHeader(msg["In-Reply-To"])
                 THEN TrimmedHeader(msg["In-Reply-To"])
                 ELSE IF TruthyHeader(msg["Message-ID"])
                      THEN TrimmedHeader(msg["Message-ID"])
                      ELSE None

----------------------------------------------------------------------------
(* clean_email_text *)

MaxTextLen == 5

\* The two-character escape sequences are written with a backslash followed
\* by a letter; "\n" and "\r" below are the control characters, and
\* "U+00A0" is the no-break space.
TextChars == {"\\", "r", "n", " ", "\n", "\r", "U+00A0", "a"}

TextValues == {None} \cup {Some(v) : v \in Strings(TextChars, MaxTextLen)}

\* str.replace(old, new): leftmost occurrences, not overlapping
RECURSIVE Replace(_, _, _)
Replace(s, old, new) ==
    IF Len(s) < Len(old) THEN s
    ELSE IF SubSeq(s, 1, Len(old)) = old
         THEN new \o Replace(SubSeq(s, Len(old) + 1, Len(s)), old, new)
         ELSE <<s[1]>> \o Replace(Tail(s), old, new)

\* str.split(sep) for a one-character sep, cur being the piece under
\* construction: one piece more than there are separators.
RECURSIVE SplitOnFrom(_, _, _, _)
SplitOnFrom(s, sep, p, cur) ==
    IF p > Len(s) THEN <<cur>>
    ELSE IF s[p] = sep
         THEN <<cur>> \o SplitOnFrom(s, sep, p + 1, <<>>)
         ELSE SplitOnFrom(s, sep, p + 1, Append(cur, s[p]))

SplitOn(s, sep) == SplitOnFrom(s, sep, 1, <<>>)

\* sep.join(pieces)
RECURSIVE Join(_, _)
Join(pieces, sep) ==
    IF pieces = <<>> THEN <<>>
    ELSE IF Len(pieces) = 1 THEN pieces[1]
         ELSE pieces[1] \o sep \o Join(Tail(pieces), sep)

\* The two replacements in the other order.
ReplaceEscapesCrFirst(t) ==
    Replace(Replace(t, <<"\\", "r">>, <<"\n">>), <<"\\", "r", "\\", "n">>, <<"\n">>)

\* lines 134-135
ReplaceEscapes(t) ==
    Replace(Replace(t, <<"\\", "r", "\\", "n">>, <<"\n">>), <<"\\", "r">>, <<"\n">>)

IsNonEmpty(line) == line # <<>>

clean_email_text(t) ==
    IF ~Truthy(t) THEN <<>>
    ELSE LET pieces == SplitOn(ReplaceEscapes(t[1]), "\n")
             lines == [k \in DOMAIN pieces |-> Strip(pieces[k])]
             non_empty_lines == SelectSeq(lines, IsNonEmpty)
         IN Join(non_empty_lines, <<"\n">>)

InitCleanText ==
    /\ pc = "idle"
    /\ text \in TextValues
    /\ msg = Idle
    /\ filename = Idle
    /\ result = Idle
    /\ BuilderIdle

CleanEmailText ==
    /\ pc = "idle"
    /\ result' = clean_email_text(text)
    /\ pc' = "done"
    /\ UNCHANGED <<messages, messages_map, children, roots, idx, msg, text, filename>>

NextCleanText == CleanEmailText

SpecCleanText == InitCleanText /\ [][NextCleanText]_vars

\* The rewriting as one pass from the left: at each position a literal
\* backslash-r-backslash-n, or else a literal backslash-r, becomes one line
\* break, and any other character is kept.
RECURSIVE RewrittenFrom(_, _)
RewrittenFrom(s, p) ==
    IF p > Len(s) THEN <<>>
    ELSE IF p + 3 <= Len(s) /\ s[p] = "\\" /\ s[p + 1] = "r"
                            /\ s[p + 2] = "\\" /\ s[p + 3] = "n"
         THEN <<"\n">> \o RewrittenFrom(s, p + 4)
         ELSE IF p + 1 <= Len(s) /\ s[p] = "\\" /\ s[p + 1] = "r"
              THEN <<"\n">> \o RewrittenFrom(s, p + 2)
              ELSE <<s[p]>> \o RewrittenFrom(s, p + 1)

\* The lines of s, by the positions of its line breaks.
Breaks(s) == {p \in DOMAIN s : s[p] = "\n"}

LineFirst(s, k) ==
    IF k = 1 THEN 1
    ELSE 1 + CHOOSE p \in Breaks(s) : Cardinality({q \in Breaks(s) : q < p}) = k - 2

LineLast(s, k) ==
    IF k = Cardinality(Breaks(s)) + 1 THEN Len(s)
    ELSE (CHOOSE p \in Breaks(s) : Cardinality({q \in Breaks(s) : q < p}) = k - 1) - 1

LinesOf(s) ==
    [k \in 1..(Cardinality(Breaks(s)) + 1) |-> SubSeq(s, LineFirst(s, k), LineLast(s, k))]

\* A line without its leading and trailing whitespace.
Trimmed(line) ==
    LET kept == {p \in DOMAIN line : line[p] \notin Whitespace}
    IN IF kept = {} THEN <<>>
       ELSE SubSeq(line,
                   CHOOSE p \in kept : \A q \in kept : p <= q,
                   CHOOSE p \in kept : \A q \in kept : q <= p)

TrimmedNonEmptyLines(s) ==
    LET all == LinesOf(s)
    IN SelectSeq([k \in DOMAIN all |-> Trimmed(all[k])], IsNonEmpty)

\* C8: the output consists of exactly the lines of the rewritten input,
\* trimmed, without the empty ones, in order, one line break between two of
\* them; no output line is empty or has leading or trailing whitespace; None
\* and "" give "".
C8_TrimmedNonEmptyLines ==
    pc = "done" =>
        /\ ~Truthy(text) => result = <<>>
        /\ Truthy(text) =>
            LET expected == TrimmedNonEmptyLines(RewrittenFrom(text[1], 1))
                got == LinesOf(result)
            IN IF expected = <<>> THEN result = <<>>
               ELSE /\ got = expected
                    /\ \A k \in DOMAIN got :
                        /\ got[k] # <<>>
                        /\ got[k][1] \notin Whitespace
                        /\ got[k][Len(got[k])] \notin Whitespace

C8_Witness ==
    /\ pc = "done"
    /\ Truthy(text)
    /\ \E p \in DOMAIN text[1] :
        /\ p < Len(text[1])
        /\ text[1][p] = "\\"
        /\ text[1][p + 1] = "r"
    /\ \E p \in DOMAIN text[1] : text[1][p] = " "
    /\ Len(LinesOf(result)) = 2

----------------------------------------------------------------------------
(* sanitize_filename *)

MaxNameLen == 3

\* The character class of the pattern r'[\\/*?:"<>|]' without the backslash.
IllegalCharClassNoBackslash == {"/", "*", "?", ":", "\"", "<", ">", "|"}

\* The character class of the pattern r'[\\/*?:"<>|]'
IllegalCharClass == {"\\", "/", "*", "?", ":", "\"", "<", ">", "|"}

NameChars == {"\\", "/", "*", "?", ":", "\"", "<", ">", "|", "a", "."}

\* re.sub of a character class: every character of the class is replaced
RECURSIVE ReSubClass(_, _, _)
ReSubClass(class, repl, s) ==
    IF s = <<>> THEN <<>>
    ELSE (IF s[1] \in class THEN repl ELSE <<s[1]>>) \o ReSubClass(class, repl, Tail(s))

sanitize_filename(name) == ReSubClass(IllegalCharClass, <<>>, name)

InitSanitize ==
    /\ pc = "idle"
    /\ filename \in Strings(NameChars, MaxNameLen)
    /\ msg = Idle
    /\ text = Idle
    /\ result = Idle
    /\ BuilderIdle

SanitizeFilename ==
    /\ pc = "idle"
    /\ result' = sanitize_filename(filename)
    /\ pc' = "done"
    /\ UNCHANGED <<messages, messages_map, children, roots, idx, msg, text, filename>>

NextSanitize == SanitizeFilename

SpecSanitize == InitSanitize /\ [][NextSanitize]_vars

\* Backslash, forward slash, asterisk, question mark, colon, double quote,
\* less-than, greater-than and pipe.
NineCharacters == {"\\", "/", "*", "?", ":", "\"", "<", ">", "|"}

\* C9: the output is the input without the nine characters: its k-th
\* character is the k-th of the input's other characters, nothing else is
\* in it, and the empty name gives the empty name.
C9_NineCharactersRemoved ==
    pc = "done" =>
        LET kept == {p \in DOMAIN filename : filename[p] \notin NineCharacters}
        IN /\ Len(result) = Cardinality(kept)
           /\ \A p \in kept :
                result[Cardinality({q \in kept : q <= p})] = filename[p]
           /\ \A k \in DOMAIN result : result[k] \notin NineCharacters
           /\ (filename = <<>> => result = <<>>)

C9_Witness ==
    /\ pc = "done"
    /\ result # <<>>
    /\ Len(result) < Len(filename)
    /\ filename[1] \in NineCharacters

====
